---------------------------- MODULE Spec2Model ----------------------------
(***************************************************************************)
(* Model of xray/stats.go: QueryStats, QueryStatsByTag, queryStatsHTTP and *)
(* queryStatsInProcess.                                                    *)
(*                                                                         *)
(* Strings are sequences of one-character strings, so that TrimSpace,      *)
(* Contains, Sprintf and json.Marshal are computed character by character. *)
(* One query is in flight at a time.  The counter registry is mutated by   *)
(* the traffic-accounting side of the runtime while a query runs; the      *)
(* lifecycle of the runtime (the coreServer global, which the code reads   *)
(* without synchronisation) is changed by the host between queries.  The   *)
(* state "done" is the instant of return: the caller then takes the        *)
(* outcome, or makes the same query again.                                 *)
(***************************************************************************)
EXTENDS Integers, Sequences, FiniteSets, TLC

VARIABLES
    coreServer,   \* the package-level *core.Instance: "nil" or "instance"
    running,      \* what coreServer.IsRunning() reports
    feature,      \* what coreServer.GetFeature(corestats.ManagerType()) returns
    outboundTag,  \* tag of the outbound the instance was configured with
    registry,     \* the stats manager's counters: registered key -> cumulative value
    pc,           \* position of the query in flight
    entry,        \* exported function that was called
    server,       \* the identifier passed by the caller
    tag,          \* parameter of queryStatsInProcess
    upCounter,    \* handle returned by GetCounter (uplink), or NilCounter
    downCounter,  \* handle returned by GetCounter (downlink), or NilCounter
    uplink,       \* local int64
    downlink,     \* local int64
    resp,         \* *http.Response of the call: [got, body, open]
    result,       \* returned string
    err,          \* returned error
    closes,       \* number of resp.Body.Close() calls made by the call
    trace,        \* calls the query made on its collaborators, in order
    quiet,        \* no runtime or registry mutation since the call started
    prev,         \* outcome of the preceding identical call, if still comparable
    held          \* successive values of the tag's counter pair during the call

vars == << coreServer, running, feature, outboundTag, registry, pc, entry, server, tag, upCounter, downCounter,
           uplink, downlink, resp, result, err, closes, trace, quiet, prev, held >>

-----------------------------------------------------------------------------
(* Bounds *)

MaxLen == 3
MaxVal == 1

Alphabet == {" ", "p", ":", "/"}

Identifiers == UNION { [1..n -> Alphabet] : n \in 0..MaxLen }

\* outbound tags a configuration may use
ConfigTags == { <<"p">>, <<":", "/", "/">> }

\* response bodies served by the metrics endpoint
Bodies == { <<>>, <<"f", "o", "o", "=", "1">> }

-----------------------------------------------------------------------------
(* Errors *)

NoErr         == "nil"
ErrEmptyTag   == "stats tag is empty"
ErrNotRunning == "core not running"
ErrNoStats    == "stats not enabled in config"
ErrMismatch   == "stats manager type mismatch"
ErrGet        == "transport: GET failed"
ErrRead       == "transport: body read failed"

-----------------------------------------------------------------------------
(* strings.TrimSpace, strings.Contains *)

IsSpace(c) == c \in {" ", "\t", "\n", "\r"}

RECURSIVE TrimLeft(_)
TrimLeft(s) ==
    IF s # <<>> /\ IsSpace(Head(s)) THEN TrimLeft(Tail(s)) ELSE s

RECURSIVE TrimRight(_)
TrimRight(s) ==
    IF s # <<>> /\ IsSpace(s[Len(s)]) THEN TrimRight(SubSeq(s, 1, Len(s) - 1)) ELSE s

\* variant: the identifier is used as given
TrimSpaceOmitted(s) == s

TrimSpace(s) == TrimRight(TrimLeft(s))

Contains(s, sub) ==
    \E i \in 1..(Len(s) - Len(sub) + 1) : SubSeq(s, i, i + Len(sub) - 1) = sub

SchemeSep == <<":", "/", "/">>

\* variant: the routing test looks for ":/" only
IsURLLoose(s) == Contains(s, <<":", "/">>)

\* the routing test of QueryStats
IsURL(s) == Contains(s, SchemeSep)

-----------------------------------------------------------------------------
(* fmt.Sprintf of the two counter names *)

\* variant: a two-character delimiter after the namespace
UplinkFormatShort == << <<"o","u","t","b","o","u","n","d",">",">">>,
                        <<">",">",">","t","r","a","f","f","i","c",">",">",">","u","p","l","i","n","k">> >>

UplinkFormat   == << <<"o","u","t","b","o","u","n","d",">",">",">">>,
                     <<">",">",">","t","r","a","f","f","i","c",">",">",">","u","p","l","i","n","k">> >>

DownlinkFormat == << <<"o","u","t","b","o","u","n","d",">",">",">">>,
                     <<">",">",">","t","r","a","f","f","i","c",">",">",">","d","o","w","n","l","i","n","k">> >>

\* Sprintf(format, t) for a format with one %s verb: text before, text after
Sprintf(format, t) == format[1] \o t \o format[2]

UpKey(t)   == Sprintf(UplinkFormat, t)
DownKey(t) == Sprintf(DownlinkFormat, t)

\* the counters the runtime keeps for the outbound tagged t
CountersOf(t) == { UpKey(t), DownKey(t) }

-----------------------------------------------------------------------------
(* json.Marshal of struct{Uplink int64 `json:"uplink"`; Downlink int64 `json:"downlink"`} *)

Digit(d) == << "0", "1", "2", "3", "4", "5", "6", "7", "8", "9" >>[d + 1]

RECURSIVE Digits(_)
Digits(n) == IF n < 10 THEN << Digit(n) >> ELSE Digits(n \div 10) \o << Digit(n % 10) >>

Itoa(n) == IF n < 0 THEN <<"-">> \o Digits(0 - n) ELSE Digits(n)

Quote(name) == <<"\"">> \o name \o <<"\"">>

UplinkName   == <<"u","p","l","i","n","k">>
DownlinkName == <<"d","o","w","n","l","i","n","k">>

\* variant: the values are assigned to the wrong fields
SnapshotSwapped(u, d) == << [name |-> UplinkName, val |-> d], [name |-> DownlinkName, val |-> u] >>

\* the struct literal: fields in declaration order, with their json names
Snapshot(u, d) == << [name |-> UplinkName, val |-> u], [name |-> DownlinkName, val |-> d] >>

RECURSIVE EncodeFields(_, _)
EncodeFields(fields, first) ==
    IF fields = <<>> THEN <<>>
    ELSE (IF first THEN <<>> ELSE <<",">>)
         \o Quote(Head(fields).name) \o <<":">> \o Itoa(Head(fields).val)
         \o EncodeFields(Tail(fields), FALSE)

Marshal(u, d) == <<"{">> \o EncodeFields(Snapshot(u, d), TRUE) \o <<"}">>

-----------------------------------------------------------------------------
(* The runtime and its stats manager, as the query reads them *)

Features == {"absent", "manager", "other"}

\* the registry is a map, held as its set of entries <<key, value>>
EmptyRegistry == { }

Keys(reg) == { e[1] : e \in reg }

Lookup(reg, key) == (CHOOSE e \in reg : e[1] = key)[2]

\* a nil corestats.Counter; no key is the empty string
NilCounter == << >>

\* corestats.Manager.GetCounter: a handle on the counter, or nil
GetCounter(key) == IF key \in Keys(registry) THEN key ELSE NilCounter

\* corestats.Counter.Value
Value(counter) == Lookup(registry, counter)

NoResp == [got |-> FALSE, body |-> << >>, open |-> FALSE]

NoPrev == [some |-> FALSE, result |-> << >>, err |-> NoErr]

\* values of the counter pair of tag t in registry reg: <<v>> present, <<>> absent
Pair(reg, t) ==
    << IF UpKey(t) \in Keys(reg) THEN << Lookup(reg, UpKey(t)) >> ELSE << >>,
       IF DownKey(t) \in Keys(reg) THEN << Lookup(reg, DownKey(t)) >> ELSE << >> >>

InFlight == pc \notin {"idle", "done"}

Call(op, arg) == [op |-> op, arg |-> arg]

-----------------------------------------------------------------------------
(* Initial state: no core was started, no query was made *)

Init ==
    /\ coreServer = "nil"
    /\ running = FALSE
    /\ feature = "absent"
    /\ outboundTag = << >>
    /\ registry = EmptyRegistry
    /\ pc = "idle"
    /\ entry = "none"
    /\ server = << >>
    /\ tag = << >>
    /\ upCounter = NilCounter
    /\ downCounter = NilCounter
    /\ uplink = 0
    /\ downlink = 0
    /\ resp = NoResp
    /\ result = << >>
    /\ err = NoErr
    /\ closes = 0
    /\ trace = << >>
    /\ quiet = TRUE
    /\ prev = NoPrev
    /\ held = << >>

runtimeVars == << coreServer, running, feature, outboundTag, registry >>
localVars   == << upCounter, downCounter, uplink, downlink >>
callVars    == << pc, entry, server, tag, upCounter, downCounter, uplink, downlink,
                  resp, result, err, closes, trace >>

-----------------------------------------------------------------------------
(* queryStatsInProcess *)

\* variant: only the nil test of line 51, without IsRunning
PrecheckNilOnly(t) ==
    IF t = << >> THEN ErrEmptyTag
    ELSE IF coreServer = "nil" THEN ErrNotRunning
    ELSE IF feature = "absent" THEN ErrNoStats
    ELSE IF feature # "manager" THEN ErrMismatch
    ELSE NoErr

\* variant: the feature is looked at before the runtime
PrecheckFeatureFirst(t) ==
    IF t = << >> THEN ErrEmptyTag
    ELSE IF feature = "absent" THEN ErrNoStats
    ELSE IF feature # "manager" THEN ErrMismatch
    ELSE IF coreServer = "nil" \/ ~running THEN ErrNotRunning
    ELSE NoErr

\* lines 48-61: the error of the first failing precondition, NoErr when all hold
Precheck(t) ==
    IF t = << >> THEN ErrEmptyTag
    ELSE IF coreServer = "nil" \/ ~running THEN ErrNotRunning
    ELSE IF feature = "absent" THEN ErrNoStats
    ELSE IF feature # "manager" THEN ErrMismatch
    ELSE NoErr

\* lines 48-61: what the preconditions read of the runtime, in order
PrecheckTrace(t) ==
    IF t = << >> THEN << >>
    ELSE IF coreServer = "nil" THEN << Call("coreServer", << >>) >>
    ELSE IF ~running THEN << Call("coreServer", << >>), Call("IsRunning", << >>) >>
    ELSE << Call("coreServer", << >>), Call("IsRunning", << >>), Call("GetFeature", << >>) >>

HTTPCalled == \E i \in 1..Len(trace) : trace[i].op = "http.Get"

\* the outcome kept for the next call, when the next call can be compared with it
Remember(e, s) ==
    IF pc = "done" /\ quiet /\ e = entry /\ s = server /\ ~HTTPCalled
    THEN [some |-> TRUE, result |-> result, err |-> err]
    ELSE NoPrev

\* lines 47-61: entry with tag t, up to the first counter lookup
queryStatsInProcess(e, s, t) ==
    /\ entry' = e
    /\ server' = s
    /\ tag' = t
    /\ trace' = PrecheckTrace(t)
    /\ upCounter' = NilCounter
    /\ downCounter' = NilCounter
    /\ uplink' = 0
    /\ downlink' = 0
    /\ resp' = NoResp
    /\ closes' = 0
    /\ result' = << >>
    /\ err' = Precheck(t)
    /\ pc' = IF Precheck(t) = NoErr THEN "getUp" ELSE "done"
    /\ quiet' = TRUE
    /\ prev' = Remember(e, s)
    /\ held' = << Pair(registry, t) >>
    /\ UNCHANGED runtimeVars

\* line 62
GetUp ==
    /\ pc = "getUp"
    /\ upCounter' = GetCounter(UpKey(tag))
    /\ trace' = Append(trace, Call("GetCounter", UpKey(tag)))
    /\ pc' = "getDown"
    /\ UNCHANGED << runtimeVars, entry, server, tag, downCounter, uplink, downlink,
                    resp, result, err, closes, quiet, prev, held >>

\* variant: the downlink lookup uses the uplink name
GetDownUplinkName ==
    /\ pc = "getDown"
    /\ downCounter' = GetCounter(UpKey(tag))
    /\ trace' = Append(trace, Call("GetCounter", DownKey(tag)))
    /\ pc' = "valUp"
    /\ UNCHANGED << runtimeVars, entry, server, tag, upCounter, uplink, downlink,
                    resp, result, err, closes, quiet, prev, held >>

\* line 63
GetDown ==
    /\ pc = "getDown"
    /\ downCounter' = GetCounter(DownKey(tag))
    /\ trace' = Append(trace, Call("GetCounter", DownKey(tag)))
    /\ pc' = "valUp"
    /\ UNCHANGED << runtimeVars, entry, server, tag, upCounter, uplink, downlink,
                    resp, result, err, closes, quiet, prev, held >>

\* variant: the read resets the counter
ValUpAndReset ==
    /\ pc = "valUp"
    /\ IF upCounter # NilCounter
       THEN /\ uplink' = Value(upCounter)
            /\ trace' = Append(trace, Call("Value", upCounter))
            /\ registry' = (registry \ { << upCounter, Value(upCounter) >> })
                              \cup { << upCounter, 0 >> }
       ELSE /\ uplink' = 0
            /\ trace' = trace
            /\ registry' = registry
    /\ pc' = "valDown"
    /\ UNCHANGED << coreServer, running, feature, outboundTag, entry, server, tag,
                    upCounter, downCounter, downlink,
                    resp, result, err, closes, quiet, prev, held >>

\* lines 64-67
ValUp ==
    /\ pc = "valUp"
    /\ IF upCounter # NilCounter
       THEN /\ uplink' = Value(upCounter)
            /\ trace' = Append(trace, Call("Value", upCounter))
       ELSE /\ uplink' = 0
            /\ trace' = trace
    /\ pc' = "valDown"
    /\ UNCHANGED << runtimeVars, entry, server, tag, upCounter, downCounter, downlink,
                    resp, result, err, closes, quiet, prev, held >>

\* variant: the downlink field is given the uplink value
ValDownFromUplink ==
    /\ pc = "valDown"
    /\ IF downCounter # NilCounter
       THEN /\ downlink' = uplink
            /\ trace' = Append(trace, Call("Value", downCounter))
       ELSE /\ downlink' = 0
            /\ trace' = trace
    /\ pc' = "marshal"
    /\ UNCHANGED << runtimeVars, entry, server, tag, upCounter, downCounter, uplink,
                    resp, result, err, closes, quiet, prev, held >>

\* lines 68-70
ValDown ==
    /\ pc = "valDown"
    /\ IF downCounter # NilCounter
       THEN /\ downlink' = Value(downCounter)
            /\ trace' = Append(trace, Call("Value", downCounter))
       ELSE /\ downlink' = 0
            /\ trace' = trace
    /\ pc' = "marshal"
    /\ UNCHANGED << runtimeVars, entry, server, tag, upCounter, downCounter, uplink,
                    resp, result, err, closes, quiet, prev, held >>

\* lines 71-79: marshalling two int64 fields cannot fail
Return ==
    /\ pc = "marshal"
    /\ result' = Marshal(uplink, downlink)
    /\ err' = NoErr
    /\ upCounter' = NilCounter
    /\ downCounter' = NilCounter
    /\ pc' = "done"
    /\ UNCHANGED << runtimeVars, entry, server, tag, uplink, downlink,
                    resp, closes, trace, quiet, prev, held >>

-----------------------------------------------------------------------------
(* queryStatsHTTP *)

\* line 32: entry, up to the GET
queryStatsHTTP(e, s) ==
    /\ entry' = e
    /\ server' = s
    /\ tag' = << >>
    /\ trace' = << >>
    /\ upCounter' = NilCounter
    /\ downCounter' = NilCounter
    /\ uplink' = 0
    /\ downlink' = 0
    /\ resp' = NoResp
    /\ closes' = 0
    /\ result' = << >>
    /\ err' = NoErr
    /\ pc' = "httpGet"
    /\ quiet' = TRUE
    /\ prev' = NoPrev
    /\ held' = << >>
    /\ UNCHANGED runtimeVars

\* lines 33-36: http.Get answers with a response whose body is open, or fails
HttpGet ==
    /\ pc = "httpGet"
    /\ trace' = Append(trace, Call("http.Get", server))
    /\ \/ \E b \in Bodies :
            /\ resp' = [got |-> TRUE, body |-> b, open |-> TRUE]
            /\ pc' = "httpRead"
            /\ UNCHANGED << result, err >>
       \/ /\ resp' = NoResp
          /\ result' = << >>
          /\ err' = ErrGet
          /\ pc' = "done"
    /\ UNCHANGED << runtimeVars, entry, server, tag, localVars, closes, quiet, prev, held >>

\* variant: Close is not deferred, a failed read returns before it
HttpReadAllNoDefer ==
    /\ pc = "httpRead"
    /\ trace' = Append(trace, Call("io.ReadAll", << >>))
    /\ \/ /\ resp.open
          /\ result' = resp.body
          /\ err' = NoErr
          /\ pc' = "httpDefer"
       \/ /\ result' = << >>
          /\ err' = ErrRead
          /\ pc' = "done"
    /\ UNCHANGED << runtimeVars, entry, server, tag, localVars, resp, closes, quiet, prev, held >>

\* lines 38-42: io.ReadAll drains the body or fails; a closed body cannot be read
HttpReadAll ==
    /\ pc = "httpRead"
    /\ trace' = Append(trace, Call("io.ReadAll", << >>))
    /\ \/ /\ resp.open
          /\ result' = resp.body
          /\ err' = NoErr
       \/ /\ result' = << >>
          /\ err' = ErrRead
    /\ pc' = "httpDefer"
    /\ UNCHANGED << runtimeVars, entry, server, tag, localVars, resp, closes, quiet, prev, held >>

\* line 37: the deferred resp.Body.Close() runs as the function returns
HttpDeferredClose ==
    /\ pc = "httpDefer"
    /\ trace' = Append(trace, Call("Body.Close", << >>))
    /\ resp' = [resp EXCEPT !.open = FALSE]
    /\ closes' = closes + 1
    /\ pc' = "done"
    /\ UNCHANGED << runtimeVars, entry, server, tag, localVars, result, err, quiet, prev, held >>

-----------------------------------------------------------------------------
(* Exported functions *)

\* lines 17-24
QueryStats(s) ==
    IF IsURL(s)
    THEN queryStatsHTTP("QueryStats", s)
    ELSE queryStatsInProcess("QueryStats", s, TrimSpace(s))

\* lines 28-30
QueryStatsByTag(t) == queryStatsInProcess("QueryStatsByTag", t, TrimSpace(t))

\* the caller makes a query
CallQueryStats == pc = "idle" /\ \E s \in Identifiers : QueryStats(s)

CallQueryStatsByTag == pc = "idle" /\ \E t \in Identifiers : QueryStatsByTag(t)

\* the caller makes the query it just made once more, right after its return
RepeatQueryStats == pc = "done" /\ entry = "QueryStats" /\ QueryStats(server)

RepeatQueryStatsByTag == pc = "done" /\ entry = "QueryStatsByTag" /\ QueryStatsByTag(server)

\* the caller takes the outcome; the locals of the call are gone
Consume ==
    /\ pc = "done"
    /\ pc' = "idle"
    /\ entry' = "none"
    /\ server' = << >>
    /\ tag' = << >>
    /\ upCounter' = NilCounter
    /\ downCounter' = NilCounter
    /\ uplink' = 0
    /\ downlink' = 0
    /\ resp' = NoResp
    /\ result' = << >>
    /\ err' = NoErr
    /\ closes' = 0
    /\ trace' = << >>
    /\ quiet' = TRUE
    /\ prev' = NoPrev
    /\ held' = << >>
    /\ UNCHANGED runtimeVars

-----------------------------------------------------------------------------
(* The host and the runtime: lifecycle of coreServer, traffic accounting *)

\* a mutation is recorded for the query in flight; reg is the registry it leaves
Mutated(reg) ==
    /\ quiet' = IF InFlight THEN FALSE ELSE quiet
    /\ held' = IF InFlight /\ held # << >> /\ Pair(reg, tag) # held[Len(held)]
               THEN Append(held, Pair(reg, tag))
               ELSE held
    /\ prev' = prev

\* the host creates an instance from a configuration: f is what it gives as the
\* stats feature, t the tag of its outbound
NewCore(f, t) ==
    /\ pc = "idle"
    /\ coreServer' = "instance"
    /\ running' = FALSE
    /\ feature' = f
    /\ outboundTag' = t
    /\ registry' = EmptyRegistry
    /\ Mutated(EmptyRegistry)
    /\ UNCHANGED callVars

StartCore ==
    /\ pc = "idle"
    /\ coreServer = "instance"
    /\ ~running
    /\ running' = TRUE
    /\ Mutated(registry)
    /\ UNCHANGED << coreServer, feature, outboundTag, registry, callVars >>

CloseCore ==
    /\ pc = "idle"
    /\ coreServer = "instance"
    /\ running
    /\ running' = FALSE
    /\ Mutated(registry)
    /\ UNCHANGED << coreServer, feature, outboundTag, registry, callVars >>

DropCore ==
    /\ pc = "idle"
    /\ coreServer = "instance"
    /\ coreServer' = "nil"
    /\ running' = FALSE
    /\ feature' = "absent"
    /\ outboundTag' = << >>
    /\ registry' = EmptyRegistry
    /\ Mutated(EmptyRegistry)
    /\ UNCHANGED callVars

\* the runtime creates the counter named k, at zero
RegisterCounter(k) ==
    /\ pc # "done"
    /\ coreServer = "instance"
    /\ feature = "manager"
    /\ k \in CountersOf(outboundTag)
    /\ k \notin Keys(registry)
    /\ registry' = registry \cup { << k, 0 >> }
    /\ Mutated(registry \cup { << k, 0 >> })
    /\ UNCHANGED << coreServer, running, feature, outboundTag, callVars >>

\* traffic is accounted on the counter named k
AddCounter(k) ==
    /\ pc # "done"
    /\ k \in Keys(registry)
    /\ Lookup(registry, k) < MaxVal
    /\ LET bumped == (registry \ { << k, Lookup(registry, k) >> })
                        \cup { << k, Lookup(registry, k) + 1 >> }
       IN  /\ registry' = bumped
           /\ Mutated(bumped)
    /\ UNCHANGED << coreServer, running, feature, outboundTag, callVars >>

-----------------------------------------------------------------------------

Next ==
    \/ CallQueryStats
    \/ CallQueryStatsByTag
    \/ RepeatQueryStats
    \/ RepeatQueryStatsByTag
    \/ Consume
    \/ GetUp
    \/ GetDown
    \/ ValUp
    \/ ValDown
    \/ Return
    \/ HttpGet
    \/ HttpReadAll
    \/ HttpDeferredClose
    \/ \E f \in Features, t \in ConfigTags : NewCore(f, t)
    \/ StartCore
    \/ CloseCore
    \/ DropCore
    \/ \E k \in CountersOf(outboundTag) : RegisterCounter(k)
    \/ \E k \in Keys(registry) : AddCounter(k)

Spec == Init /\ [][Next]_vars

-----------------------------------------------------------------------------
(* Vocabulary of the properties, stated on the strings themselves *)

Whitespace == {" ", "\t", "\n", "\r"}

\* s is empty or consists only of whitespace
Blank(s) == \A i \in 1..Len(s) : s[i] \in Whitespace

\* s without its leading and trailing whitespace
TrimOf(s) ==
    IF Blank(s) THEN << >>
    ELSE LET first == CHOOSE i \in 1..Len(s) :
                        s[i] \notin Whitespace /\ \A k \in 1..(i - 1) : s[k] \in Whitespace
             last  == CHOOSE j \in 1..Len(s) :
                        s[j] \notin Whitespace /\ \A k \in (j + 1)..Len(s) : s[k] \in Whitespace
         IN  SubSeq(s, first, last)

\* s contains "://"
HasSchemeSep(s) ==
    \E i \in 1..(Len(s) - 2) : s[i] = ":" /\ s[i + 1] = "/" /\ s[i + 2] = "/"

\* outbound>>>t>>>traffic>>>uplink
UplinkKeyOf(t) ==
    <<"o","u","t","b","o","u","n","d",">",">",">">> \o t \o
    <<">",">",">","t","r","a","f","f","i","c",">",">",">","u","p","l","i","n","k">>

\* outbound>>>t>>>traffic>>>downlink
DownlinkKeyOf(t) ==
    <<"o","u","t","b","o","u","n","d",">",">",">">> \o t \o
    <<">",">",">","t","r","a","f","f","i","c",">",">",">","d","o","w","n","l","i","n","k">>

DecimalDigits == {"0", "1", "2", "3", "4", "5", "6", "7", "8", "9"}

DigitValue(c) ==
    CASE c = "0" -> 0 [] c = "1" -> 1 [] c = "2" -> 2 [] c = "3" -> 3 [] c = "4" -> 4
      [] c = "5" -> 5 [] c = "6" -> 6 [] c = "7" -> 7 [] c = "8" -> 8 [] c = "9" -> 9

\* ds is the decimal notation of a natural number, without leading zeros
IsDecimal(ds) ==
    /\ ds # << >>
    /\ \A i \in 1..Len(ds) : ds[i] \in DecimalDigits
    /\ Len(ds) > 1 => ds[1] # "0"

RECURSIVE ParseDecimal(_)
ParseDecimal(ds) ==
    IF ds = << >> THEN 0
    ELSE 10 * ParseDecimal(SubSeq(ds, 1, Len(ds) - 1)) + DigitValue(ds[Len(ds)])

PayloadHead == <<"{","\"","u","p","l","i","n","k","\"",":">>
PayloadMid  == <<",","\"","d","o","w","n","l","i","n","k","\"",":">>
PayloadTail == <<"}">>

\* r is {"uplink":u,"downlink":d}
IsPayload(r, u, d) ==
    \E n \in 1..(Len(r) - Len(PayloadHead) - Len(PayloadMid) - Len(PayloadTail) - 1) :
        LET a == SubSeq(r, Len(PayloadHead) + 1, Len(PayloadHead) + n)
            b == SubSeq(r, Len(PayloadHead) + n + Len(PayloadMid) + 1, Len(r) - Len(PayloadTail))
        IN  /\ r = PayloadHead \o a \o PayloadMid \o b \o PayloadTail
            /\ IsDecimal(a) /\ ParseDecimal(a) = u
            /\ IsDecimal(b) /\ ParseDecimal(b) = d

\* the call in progress or just returned is one the specification sends in-process
InProcessCall ==
    \/ entry = "QueryStatsByTag"
    \/ entry = "QueryStats" /\ ~HasSchemeSep(server)

Returned == pc = "done"

RuntimeReady == coreServer = "instance" /\ running /\ feature = "manager"

\* 0 for an absent counter, its value for a present one
ValueOr0(c) == IF c = << >> THEN 0 ELSE c[1]

\* the arguments of the calls of operation op in trace t, in order
RECURSIVE ArgsIn(_, _)
ArgsIn(t, op) ==
    IF t = << >> THEN << >>
    ELSE (IF Head(t).op = op THEN << Head(t).arg >> ELSE << >>) \o ArgsIn(Tail(t), op)

ArgsOf(op) == ArgsIn(trace, op)

OpsOf(t) == [i \in 1..Len(t) |-> t[i].op]

UpK   == UplinkKeyOf(TrimOf(server))
DownK == DownlinkKeyOf(TrimOf(server))

-----------------------------------------------------------------------------
(* C1 *)

\* C1 as stated: for every identifier that is non-empty after trimming, when the
\* runtime is running, the stats manager is present and of the expected type and
\* the registry holds both counters of the trimmed tag with values u and d, a
\* QueryStats or QueryStatsByTag call that ran with no mutation returns, without
\* error, {"uplink":u,"downlink":d}.
C1_AnyTagPayload ==
    ( /\ Returned /\ quiet
      /\ ~Blank(server)
      /\ RuntimeReady
      /\ UpK \in Keys(registry) /\ DownK \in Keys(registry) )
    => /\ err = NoErr
       /\ IsPayload(result, Lookup(registry, UpK), Lookup(registry, DownK))

\* C1, amended: the same for every call the dispatch sends in-process, that is
\* QueryStatsByTag with any such tag and QueryStats with a tag that does not
\* contain "://": the payload is {"uplink":u,"downlink":d}, uplink first, each
\* field the value of the counter of its own direction.
C1_InProcessPayload ==
    ( /\ Returned /\ quiet
      /\ InProcessCall
      /\ ~Blank(server)
      /\ RuntimeReady
      /\ UpK \in Keys(registry) /\ DownK \in Keys(registry) )
    => /\ err = NoErr
       /\ IsPayload(result, Lookup(registry, UpK), Lookup(registry, DownK))

\* a QueryStats call returned the payload of two counters with different values
C1_Witness ==
    /\ Returned /\ quiet /\ entry = "QueryStats" /\ InProcessCall /\ RuntimeReady
    /\ UpK \in Keys(registry) /\ DownK \in Keys(registry)
    /\ Lookup(registry, UpK) = 1 /\ Lookup(registry, DownK) = 0
    /\ err = NoErr /\ result # << >>

-----------------------------------------------------------------------------
(* C2 *)

\* C2: on the in-process path, with a non-empty tag, the runtime running and the
\* stats manager present, a query that ran with no mutation returns no error
\* whichever counters are absent: the field of an absent direction is 0 and the
\* field of a present direction is that counter's value.
C2_AbsentIsZero ==
    ( /\ Returned /\ quiet
      /\ InProcessCall
      /\ ~Blank(server)
      /\ RuntimeReady )
    => /\ err = NoErr
       /\ IsPayload(result,
                    IF UpK \in Keys(registry) THEN Lookup(registry, UpK) ELSE 0,
                    IF DownK \in Keys(registry) THEN Lookup(registry, DownK) ELSE 0)

\* the uplink counter holds 1, the downlink counter is absent, the query returned
C2_Witness ==
    /\ Returned /\ quiet /\ InProcessCall /\ RuntimeReady
    /\ UpK \in Keys(registry) /\ DownK \notin Keys(registry)
    /\ Lookup(registry, UpK) = 1
    /\ err = NoErr

-----------------------------------------------------------------------------
(* C3 *)

\* C3: a QueryStats or QueryStatsByTag call whose identifier is empty or all
\* whitespace returns the error "stats tag is empty" and the empty string, in
\* every state of the runtime and of the registry, having read neither.
C3_BlankIsInvalid ==
    ( /\ pc # "idle"
      /\ Blank(server) )
    => /\ Returned
       /\ err = ErrEmptyTag
       /\ result = << >>
       /\ trace = << >>

\* a whitespace-only identifier was refused while the runtime was fully serving
C3_Witness ==
    /\ Returned /\ server = << " ", " " >> /\ RuntimeReady
    /\ registry # EmptyRegistry
    /\ err = ErrEmptyTag

-----------------------------------------------------------------------------
(* C4 *)

\* C4 as stated: on the in-process path a query fails with "core not running"
\* whenever coreServer is nil or not running, whatever the tag.
C4_AnyTagNotRunning ==
    ( /\ Returned
      /\ InProcessCall
      /\ (coreServer = "nil" \/ ~running) )
    => /\ err = ErrNotRunning
       /\ result = << >>

\* C4, amended: on the in-process path a query whose tag is non-empty after
\* trimming fails with "core not running" whenever coreServer is nil or not
\* running.
C4_NotRunning ==
    ( /\ Returned
      /\ InProcessCall
      /\ ~Blank(server)
      /\ (coreServer = "nil" \/ ~running) )
    => /\ err = ErrNotRunning
       /\ result = << >>

\* an instance that has a stats manager with counters, but is not running
C4_Witness ==
    /\ Returned /\ InProcessCall /\ ~Blank(server)
    /\ coreServer = "instance" /\ ~running /\ feature = "manager"
    /\ UpK \in Keys(registry)
    /\ err = ErrNotRunning

-----------------------------------------------------------------------------
(* C5 *)

RuntimeOps == {"coreServer", "IsRunning", "GetFeature", "GetCounter", "Value"}
NetworkOps == {"http.Get", "io.ReadAll", "Body.Close"}

OpSet(t) == { t[i].op : i \in 1..Len(t) }

\* C5: QueryStats routes on the substring "://" alone.  A call whose identifier
\* contains it issues one GET to the identifier as given, reads neither the
\* runtime nor the registry, and returns the response body as received or a
\* transport error, never "core not running"; a call whose identifier does not
\* contain it issues no network request.
C5_RoutingBySubstring ==
    ( pc # "idle" /\ entry = "QueryStats" )
    => /\ HasSchemeSep(server) =>
            /\ OpSet(trace) \cap RuntimeOps = { }
            /\ pc # "httpGet" => trace[1] = Call("http.Get", server)
            /\ Returned =>
                 \/ err = NoErr /\ resp.got /\ result = resp.body
                 \/ err \in {ErrGet, ErrRead} /\ result = << >>
       /\ ~HasSchemeSep(server) =>
            /\ OpSet(trace) \cap NetworkOps = { }
            /\ pc \notin {"httpGet", "httpRead", "httpDefer"}

\* a URL query returned the body while no core existed
C5_Witness ==
    /\ Returned /\ entry = "QueryStats" /\ HasSchemeSep(server)
    /\ coreServer = "nil"
    /\ err = NoErr /\ result = <<"f", "o", "o", "=", "1">>

-----------------------------------------------------------------------------
(* C6 *)

Proxy == <<"p", "r", "o", "x", "y">>

\* C6: the counter names are outbound>>>TAG>>>traffic>>>uplink and
\* outbound>>>TAG>>>traffic>>>downlink, TAG being the identifier with its
\* surrounding whitespace removed (for "proxy": the two names of the regression
\* test).  An in-process query looks up the uplink name, then the downlink name,
\* and no other; it reads the value of no other counter.
C6_CounterKeys ==
    /\ UpKey(Proxy) = <<"o","u","t","b","o","u","n","d",">",">",">","p","r","o","x","y",
                        ">",">",">","t","r","a","f","f","i","c",">",">",">",
                        "u","p","l","i","n","k">>
    /\ DownKey(Proxy) = <<"o","u","t","b","o","u","n","d",">",">",">","p","r","o","x","y",
                          ">",">",">","t","r","a","f","f","i","c",">",">",">",
                          "d","o","w","n","l","i","n","k">>
    /\ ( pc # "idle" /\ InProcessCall ) =>
          /\ pc = "getUp"   => ArgsOf("GetCounter") = << >>
          /\ pc = "getDown" => ArgsOf("GetCounter") = << UpK >>
          /\ pc \in {"valUp", "valDown", "marshal"} => ArgsOf("GetCounter") = << UpK, DownK >>
          /\ Returned => ArgsOf("GetCounter") = (IF err = NoErr THEN << UpK, DownK >> ELSE << >>)
          /\ \A i \in 1..Len(ArgsOf("Value")) : ArgsOf("Value")[i] \in {UpK, DownK}

\* a query with surrounding whitespace found both counters of the trimmed tag
C6_Witness ==
    /\ Returned /\ InProcessCall /\ err = NoErr
    /\ server = << " ", "p", " " >>
    /\ ArgsOf("GetCounter") = << UplinkKeyOf(<<"p">>), DownlinkKeyOf(<<"p">>) >>
    /\ ArgsOf("Value") = << UplinkKeyOf(<<"p">>), DownlinkKeyOf(<<"p">>) >>

-----------------------------------------------------------------------------
(* C7 *)

\* a step of a query, from its call to its return
QueryStep ==
    \/ CallQueryStats \/ CallQueryStatsByTag \/ RepeatQueryStats \/ RepeatQueryStatsByTag
    \/ GetUp \/ GetDown \/ ValUp \/ ValDown \/ Return

IdenticalOutcome ==
    ( Returned /\ InProcessCall /\ prev.some /\ quiet )
    => /\ result = prev.result
       /\ err = prev.err

\* C7: when a query is repeated right after its return, and neither the runtime
\* nor the registry was mutated from the start of the first call to the return
\* of the second, the second returns the payload and error of the first; and no
\* step of a query changes the runtime, a registry entry or a counter value.
C7_Idempotent ==
    /\ []IdenticalOutcome
    /\ [][QueryStep => UNCHANGED << coreServer, running, feature, registry >>]_vars

\* a payload with a non-zero field was returned twice
C7_Witness ==
    /\ Returned /\ InProcessCall /\ prev.some /\ quiet
    /\ err = NoErr /\ uplink = 1
    /\ result = prev.result

-----------------------------------------------------------------------------
(* C8 *)

\* C8: the in-process preconditions are checked in the order empty tag, runtime
\* nil or not running, stats feature absent, feature not a counter manager.  The
\* error returned is that of the first failing check, the four errors differ
\* from each other and from success, and a failing check is followed by no
\* later check and no counter lookup.
C8_CheckOrder ==
    /\ Cardinality({NoErr, ErrEmptyTag, ErrNotRunning, ErrNoStats, ErrMismatch}) = 5
    /\ ( Returned /\ InProcessCall ) =>
          /\ Blank(server) => err = ErrEmptyTag /\ trace = << >>
          /\ ~Blank(server) /\ coreServer = "nil" =>
                err = ErrNotRunning /\ OpsOf(trace) = << "coreServer" >>
          /\ ~Blank(server) /\ coreServer # "nil" /\ ~running =>
                err = ErrNotRunning /\ OpsOf(trace) = << "coreServer", "IsRunning" >>
          /\ ~Blank(server) /\ coreServer # "nil" /\ running /\ feature = "absent" =>
                err = ErrNoStats /\ OpsOf(trace) = << "coreServer", "IsRunning", "GetFeature" >>
          /\ ~Blank(server) /\ coreServer # "nil" /\ running /\ feature = "other" =>
                err = ErrMismatch /\ OpsOf(trace) = << "coreServer", "IsRunning", "GetFeature" >>
          /\ err # NoErr => result = << >>
          /\ err # NoErr => err \in {ErrEmptyTag, ErrNotRunning, ErrNoStats, ErrMismatch}

\* an empty tag is reported although the runtime is nil as well
C8_Witness ==
    /\ Returned /\ InProcessCall /\ Blank(server) /\ server # << >>
    /\ coreServer = "nil"
    /\ err = ErrEmptyTag

-----------------------------------------------------------------------------
(* C9 *)

\* C9: with counters that only grow, each field of a returned snapshot is a value
\* its counter held at some instant of the call (0 standing for an absent
\* counter), hence at least the value at call start and at most the value at
\* return.
C9_FieldsWithinCall ==
    ( Returned /\ InProcessCall /\ err = NoErr )
    => \E i \in 1..Len(held), j \in 1..Len(held) :
          LET u == ValueOr0(held[i][1])
              d == ValueOr0(held[j][2])
          IN  /\ IsPayload(result, u, d)
              /\ ValueOr0(held[1][1]) <= u /\ u <= ValueOr0(held[Len(held)][1])
              /\ ValueOr0(held[1][2]) <= d /\ d <= ValueOr0(held[Len(held)][2])

\* the returned pair was at no instant the content of the registry
C9_Witness ==
    /\ Returned /\ InProcessCall /\ err = NoErr
    /\ held[1] = << <<0>>, <<0>> >>
    /\ \A i \in 1..Len(held) : held[i] # << << uplink >>, << downlink >> >>
    /\ IsPayload(result, uplink, downlink)

-----------------------------------------------------------------------------
(* C10 *)

HTTPCall == entry = "QueryStats" /\ HasSchemeSep(server)

\* C10: on the HTTP path the response body is the only resource held.  When the
\* GET yields a response the body is closed exactly once, after io.ReadAll,
\* whether the read succeeded or failed; when the GET fails no body is acquired
\* and none is closed.  No call returns with the body open, one GET is issued
\* per call, and a failure is returned as an error with an empty result.
C10_BodyReleased ==
    /\ closes <= 1
    /\ resp.open => pc \in {"httpRead", "httpDefer"}
    /\ Len(ArgsOf("http.Get")) <= 1
    /\ ( Returned /\ HTTPCall ) =>
          /\ ~resp.open
          /\ resp.got  => closes = 1 /\ OpsOf(trace) = << "http.Get", "io.ReadAll", "Body.Close" >>
          /\ ~resp.got => closes = 0 /\ OpsOf(trace) = << "http.Get" >> /\ err = ErrGet
          /\ err # NoErr => result = << >>

\* the read of the body failed and the body was closed
C10_Witness ==
    /\ Returned /\ HTTPCall
    /\ resp.got /\ err = ErrRead
    /\ closes = 1 /\ ~resp.open

=============================================================================
